---------------------------- MODULE Spec2Model ----------------------------
(***************************************************************************)
(* A model of the GitHub metadata workflow: the orchestrator               *)
(* (src/app/workflow.py), its four activities (src/app/activities.py) and  *)
(* the paginating, normalizing REST client (src/app/clients.py).           *)
(*                                                                         *)
(* JSON values are tagged records with one shape, so that any two of them  *)
(* can be compared and Python's truthiness ("x or default", "if not x")    *)
(* is modelled by what it does: None, "" and 0 are falsy.                  *)
(***************************************************************************)
EXTENDS Naturals, Sequences, FiniteSets, TLC

VARIABLES
    workflow_args,  \* the run's configuration mapping (workflow_config)
    environ,        \* the process environment (os.environ)
    env_changes,    \* how often the environment was changed during the run
    upstream_user,  \* the user JSON the API serves
    upstream_pages, \* the repository pages the API serves, page 1 first
    upstream_tail,  \* the page the API serves for every later page number
    wf_pc,          \* position of GitHubWorkflow.run
    wf_result,      \* the value run returned
    user_data,      \* run's local user_data
    repo_data,      \* run's local repo_data
    summary_stats,  \* run's local summary_stats
    act,            \* per activity: the engine's status, attempts started, last error
    ret,            \* per activity: the value its successful attempt returned
    loc,            \* per activity: the locals of its current attempt
    files,          \* the artifacts on disk, by file name
    unit_pc,        \* position of a single call of a pure function
    unit_in,        \* its argument
    unit_out        \* its result

unit_vars == <<unit_pc, unit_in, unit_out>>

input_vars == <<workflow_args, upstream_user, upstream_pages, upstream_tail>>

wf_vars == <<wf_pc, wf_result, user_data, repo_data, summary_stats>>

run_vars == <<workflow_args, environ, env_changes, upstream_user, upstream_pages,
              upstream_tail,
              wf_pc, wf_result, user_data, repo_data, summary_stats,
              act, ret, loc, files>>

vars == <<workflow_args, environ, env_changes, upstream_user, upstream_pages,
          upstream_tail,
          wf_pc, wf_result, user_data, repo_data, summary_stats,
          act, ret, loc, files, unit_pc, unit_in, unit_out>>

-----------------------------------------------------------------------------
(* JSON / Python values *)

JNull == [t |-> "null", s |-> "", n |-> 0]

JStr(v) == [t |-> "str", s |-> v, n |-> 0]

JInt(v) == [t |-> "int", s |-> "", n |-> v]

\* Python truthiness of a value: None, "" and 0 are falsy.
Truthy(v) == \/ v.t = "str" /\ v.s # ""
             \/ v.t = "int" /\ v.n # 0

\* a or b
Or(a, b) == IF Truthy(a) THEN a ELSE b

EmptyDict == [k \in {} |-> JNull]

\* d.get(k): None when the key is absent
Get(d, k) == IF k \in DOMAIN d THEN d[k] ELSE JNull

\* d.get(k, dflt)
GetD(d, k, dflt) == IF k \in DOMAIN d THEN d[k] ELSE dflt

\* All sets of at most n elements of K.
RECURSIVE SubsetsUpTo(_, _)
SubsetsUpTo(K, n) ==
    IF n = 0 THEN {{}}
    ELSE LET smaller == SubsetsUpTo(K, n - 1)
         IN  smaller \cup {S \cup {k} : S \in smaller, k \in K}

-----------------------------------------------------------------------------
(* activities.py: credential resolution *)

\* Bounds on the inputs of the pure-function checks.
MaxJsonKeys == 2

\* workflow_args is None, or a mapping that may carry "username" and "pat".
NoneArgs == [none |-> TRUE, d |-> EmptyDict]

Args(d) == [none |-> FALSE, d |-> d]

\* Python truthiness of workflow_args: None and {} are falsy.
ArgsTruthy(args) == ~args.none /\ DOMAIN args.d # {}

\* os.getenv(name): None when the variable is unset.
getenv(env, name) == Get(env, name)

\* A mutation of resolve_credentials: the environment wins over the explicit value.
resolve_credentials_EnvFirst(args, env) ==
    LET username0 == getenv(env, "GITHUB_USERNAME")
        pat0      == getenv(env, "GITHUB_PAT")
        username  == IF ~Truthy(username0) /\ ArgsTruthy(args)
                     THEN Get(args.d, "username") ELSE username0
        pat       == IF ~Truthy(pat0) /\ ArgsTruthy(args)
                     THEN Get(args.d, "pat") ELSE pat0
    IN  [username |-> username, pat |-> pat]

\* _resolve_credentials(workflow_args), reading the environment as it is now.
resolve_credentials(args, env) ==
    LET username0 == IF ArgsTruthy(args)
                     THEN Get(args.d, "username") ELSE JNull
        pat0      == IF ArgsTruthy(args)
                     THEN Get(args.d, "pat") ELSE JNull
        username  == IF ~Truthy(username0)
                     THEN getenv(env, "GITHUB_USERNAME") ELSE username0
        pat       == IF ~Truthy(pat0)
                     THEN getenv(env, "GITHUB_PAT") ELSE pat0
    IN  [username |-> username, pat |-> pat]

-----------------------------------------------------------------------------
(* clients.py: UserMetadata normalization *)

\* The keys of the upstream user JSON that the normalization reads.
UserJsonStrKeys ==
    {"name", "login", "node_id", "html_url", "avatar_url", "type", "company",
     "location", "email", "blog", "twitter_username", "created_at",
     "followers_url", "following_url", "bio"}

UserJsonIntKeys == {"followers", "following", "public_repos", "public_gists"}

UserJsonKeys == UserJsonStrKeys \cup UserJsonIntKeys

\* The fields of UserMetadata (types.py).
UserStrFields ==
    {"name", "node_id", "profile_url", "avatar_url", "bio", "type", "company",
     "location", "email", "blog", "twitter_username", "created_at",
     "followers_url", "following_url"}

UserIntFields == {"followers", "following", "public_repos", "public_gists"}

UserFields == UserStrFields \cup UserIntFields

\* A mutation of normalize_user_json: the integer fields lose their "or 0".
normalize_user_json_NoOrZero(user_json) ==
    [name             |-> Or(Or(Get(user_json, "name"), Get(user_json, "login")), JStr("N/A")),
     node_id          |-> Or(Get(user_json, "node_id"), JStr("N/A")),
     profile_url      |-> Or(Get(user_json, "html_url"), JStr("N/A")),
     avatar_url       |-> Or(Get(user_json, "avatar_url"), JStr("N/A")),
     type             |-> Or(Get(user_json, "type"), JStr("N/A")),
     company          |-> Or(Get(user_json, "company"), JStr("N/A")),
     location         |-> Or(Get(user_json, "location"), JStr("N/A")),
     email            |-> Or(Get(user_json, "email"), JStr("N/A")),
     blog             |-> Or(Get(user_json, "blog"), JStr("N/A")),
     twitter_username |-> Or(Get(user_json, "twitter_username"), JStr("N/A")),
     created_at       |-> Or(Get(user_json, "created_at"), JStr("N/A")),
     followers_url    |-> Or(Get(user_json, "followers_url"), JStr("N/A")),
     following_url    |-> Or(Get(user_json, "following_url"), JStr("N/A")),
     bio              |-> Or(Get(user_json, "bio"), JStr("No bio provided.")),
     followers        |-> GetD(user_json, "followers", JInt(0)),
     following        |-> GetD(user_json, "following", JInt(0)),
     public_repos     |-> GetD(user_json, "public_repos", JInt(0)),
     public_gists     |-> GetD(user_json, "public_gists", JInt(0))]

\* GitHubClient._normalize_user_json
normalize_user_json(user_json) ==
    [name             |-> Or(Or(Get(user_json, "name"), Get(user_json, "login")), JStr("N/A")),
     node_id          |-> Or(Get(user_json, "node_id"), JStr("N/A")),
     profile_url      |-> Or(Get(user_json, "html_url"), JStr("N/A")),
     avatar_url       |-> Or(Get(user_json, "avatar_url"), JStr("N/A")),
     type             |-> Or(Get(user_json, "type"), JStr("N/A")),
     company          |-> Or(Get(user_json, "company"), JStr("N/A")),
     location         |-> Or(Get(user_json, "location"), JStr("N/A")),
     email            |-> Or(Get(user_json, "email"), JStr("N/A")),
     blog             |-> Or(Get(user_json, "blog"), JStr("N/A")),
     twitter_username |-> Or(Get(user_json, "twitter_username"), JStr("N/A")),
     created_at       |-> Or(Get(user_json, "created_at"), JStr("N/A")),
     followers_url    |-> Or(Get(user_json, "followers_url"), JStr("N/A")),
     following_url    |-> Or(Get(user_json, "following_url"), JStr("N/A")),
     bio              |-> Or(Get(user_json, "bio"), JStr("No bio provided.")),
     followers        |-> Or(GetD(user_json, "followers", JInt(0)), JInt(0)),
     following        |-> Or(GetD(user_json, "following", JInt(0)), JInt(0)),
     public_repos     |-> Or(GetD(user_json, "public_repos", JInt(0)), JInt(0)),
     public_gists     |-> Or(GetD(user_json, "public_gists", JInt(0)), JInt(0))]

-----------------------------------------------------------------------------
(* clients.py: RepoMetadata normalization and the paginated listing *)

\* per_page of fetch_all_repository_data
per_page == 100

\* Bounds on the upstream of the repository listing.
MaxPages == 3

MaxPageSize == 2

\* One raw repository of the API; its description is missing on odd ids and
\* its language is null on even ones.
RawRepo(i) ==
    LET base == [name |-> JStr(ToString(i)), stargazers_count |-> JInt(i),
                 forks_count |-> JInt(0), open_issues_count |-> JInt(i + 1),
                 created_at |-> JStr("c"), updated_at |-> JStr("u"),
                 html_url |-> JStr(ToString(i))]
    IN  IF i % 2 = 1 THEN base @@ [language |-> JStr("py")]
        ELSE base @@ [language |-> JNull, description |-> JStr("d")]

\* The pages of an upstream whose pages have the given sizes; its repositories
\* are numbered 1, 2, ... across the pages.
RECURSIVE PagesFrom(_, _)
PagesFrom(sizes, first) ==
    IF sizes = <<>> THEN <<>>
    ELSE <<[j \in 1..Head(sizes) |-> RawRepo(first + j - 1)]>>
         \o PagesFrom(Tail(sizes), first + Head(sizes))

PagesOf(sizes) == PagesFrom(sizes, 1)

\* All sequences over S of length at most n.
SeqsUpTo(S, n) == UNION {[1..m -> S] : m \in 0..n}

\* The model follows a listing for at most PageCap page requests; a listing
\* that ends does so at page MaxPages + 1 at the latest.
PageCap == MaxPages + 2

\* response.json() of GET /users/{username}/repos?page=page_num: every page
\* after the last listed one is upstream_tail, the empty page for an upstream
\* whose listing ends.
PageData(pages, page_num) ==
    IF page_num <= Len(pages) THEN pages[page_num] ELSE upstream_tail

\* A mutation of normalize_repo: star_count is read from forks_count.
normalize_repo_WrongKey(repo) ==
    [name        |-> Get(repo, "name"),
     description |-> Get(repo, "description"),
     language    |-> Get(repo, "language"),
     star_count  |-> Get(repo, "forks_count"),
     fork_count  |-> Get(repo, "forks_count"),
     issue_count |-> Get(repo, "open_issues_count"),
     created_at  |-> Get(repo, "created_at"),
     updated_at  |-> Get(repo, "updated_at"),
     url         |-> Get(repo, "html_url")]

\* One element of normalized_page_repos.
normalize_repo(repo) ==
    [name        |-> Get(repo, "name"),
     description |-> Get(repo, "description"),
     language    |-> Get(repo, "language"),
     star_count  |-> Get(repo, "stargazers_count"),
     fork_count  |-> Get(repo, "forks_count"),
     issue_count |-> Get(repo, "open_issues_count"),
     created_at  |-> Get(repo, "created_at"),
     updated_at  |-> Get(repo, "updated_at"),
     url         |-> Get(repo, "html_url")]

\* normalized_page_repos of one page
normalize_page(page_data) ==
    [j \in 1..Len(page_data) |-> normalize_repo(page_data[j])]

-----------------------------------------------------------------------------
(* activities.py: aggregation *)

\* A mutation of summary_stats_of: the profile's own count is trusted.
summary_stats_of_SelfReported(raw_data) ==
    LET user_metadata == IF "user_data" \in DOMAIN raw_data
                         THEN raw_data.user_data ELSE EmptyDict
    IN  [total_public_repos |-> Or(GetD(user_metadata, "public_repos", JInt(0)), JInt(0)),
         total_followers    |-> Or(GetD(user_metadata, "followers", JInt(0)), JInt(0)),
         total_following    |-> Or(GetD(user_metadata, "following", JInt(0)), JInt(0)),
         total_public_gists |-> Or(GetD(user_metadata, "public_gists", JInt(0)), JInt(0))]

\* The summary_stats that compute_summary_stats_activity builds from raw_data.
summary_stats_of(raw_data) ==
    LET user_metadata == IF "user_data" \in DOMAIN raw_data
                         THEN raw_data.user_data ELSE EmptyDict
        repo_metadata == IF "repo_data" \in DOMAIN raw_data
                         THEN raw_data.repo_data ELSE <<>>
        repo_count    == Len(repo_metadata)
        followers     == Or(GetD(user_metadata, "followers", JInt(0)), JInt(0))
        following     == Or(GetD(user_metadata, "following", JInt(0)), JInt(0))
        public_gists  == Or(GetD(user_metadata, "public_gists", JInt(0)), JInt(0))
    IN  [total_public_repos |-> JInt(repo_count),
         total_followers    |-> followers,
         total_following    |-> following,
         total_public_gists |-> public_gists]

-----------------------------------------------------------------------------
(* clients.py: GitHubClient, one HTTP exchange at a time *)

\* What an HTTP GET can come to: a 2xx response, a non-2xx response
\* (raise_for_status) or a failure of the transport.
HttpOutcomes == {"ok", "HTTPStatusError", "TransportError"}

\* What opening and writing an artifact can come to.
WriteOutcomes == {"ok", "OSError"}

\* The locals of an activity attempt that has not run yet.
NoLocals ==
    [username |-> JNull, pat |-> JNull, client |-> FALSE, session |-> FALSE,
     sessions |-> 0, page_num |-> 0, all_repos |-> <<>>, reqs |-> <<>>, resps |-> <<>>]

\* GitHubClient(pat=effective_pat): the session is not created yet.
GitHubClient(creds) ==
    [NoLocals EXCEPT !.username = creds.username, !.pat = creds.pat,
                     !.client = TRUE]

\* _get_client: the session is created on the first call ("if not self.client")
\* and kept; sessions counts the sessions this client has created.
get_client(l) ==
    IF l.session THEN l ELSE [l EXCEPT !.session = TRUE, !.sessions = @ + 1]

\* The request client.get sends: the Authorization header is there when the
\* client has a PAT; a repository request carries page and per_page.
Request(l, endpoint, page) ==
    [endpoint |-> endpoint, username |-> l.username, page |-> page,
     per_page |-> IF endpoint = "repos" THEN per_page ELSE 0,
     auth |-> Truthy(l.pat)]

\* fetch_user_profile_data up to its await of client.get
fetch_user_profile_data_send(l) ==
    LET c == get_client(l)
    IN  [c EXCEPT !.reqs = Append(@, Request(c, "user", 0))]

\* A mutation of fetch_user_profile_data_recv: the error is caught and another
\* one raised in its place.
fetch_user_profile_data_recv_Wrap(l0, outcome, user_json) ==
    LET l == [l0 EXCEPT !.resps = Append(@, outcome)]
    IN  IF outcome = "ok"
        THEN [kind |-> "return", locals |-> l,
              value |-> normalize_user_json(user_json), error |-> ""]
        ELSE [kind |-> "raise", locals |-> l, value |-> EmptyDict,
              error |-> "RuntimeError"]

\* fetch_user_profile_data from the response on: it returns the normalized
\* profile or re-raises the error.
fetch_user_profile_data_recv(l0, outcome, user_json) ==
    LET l == [l0 EXCEPT !.resps = Append(@, outcome)]
    IN  IF outcome = "ok"
        THEN [kind |-> "return", locals |-> l,
              value |-> normalize_user_json(user_json), error |-> ""]
        ELSE [kind |-> "raise", locals |-> l, value |-> EmptyDict, error |-> outcome]

\* fetch_all_repository_data up to its first await of client.get (page 1)
fetch_all_repository_data_send(l) ==
    LET c == get_client(l)
    IN  [c EXCEPT !.page_num = 1, !.all_repos = <<>>,
                  !.reqs = Append(@, Request(c, "repos", 1))]

\* A mutation of fetch_all_repository_data_recv: a failing page ends the loop
\* and the records fetched so far are returned.
fetch_all_repository_data_recv_Partial(l0, outcome, pages) ==
    LET l         == [l0 EXCEPT !.resps = Append(@, outcome)]
        page_data == PageData(pages, l.page_num)
    IN  IF outcome # "ok" \/ page_data = <<>>
        THEN [kind |-> "return", locals |-> l, value |-> l.all_repos, error |-> ""]
        ELSE [kind |-> "continue",
              locals |-> [l EXCEPT !.all_repos = @ \o normalize_page(page_data),
                                   !.page_num = @ + 1,
                                   !.reqs = Append(@, Request(l, "repos", l.page_num + 1))],
              value |-> <<>>, error |-> ""]

\* A mutation of fetch_all_repository_data_recv: a page shorter than per_page
\* ends the loop.
fetch_all_repository_data_recv_ShortPage(l0, outcome, pages) ==
    LET l         == [l0 EXCEPT !.resps = Append(@, outcome)]
        page_data == PageData(pages, l.page_num)
        all       == l.all_repos \o normalize_page(page_data)
    IN  IF outcome # "ok"
        THEN [kind |-> "raise", locals |-> l, value |-> <<>>, error |-> outcome]
        ELSE IF Len(page_data) < per_page
        THEN [kind |-> "return", locals |-> [l EXCEPT !.all_repos = all],
              value |-> all, error |-> ""]
        ELSE [kind |-> "continue",
              locals |-> [l EXCEPT !.all_repos = all,
                                   !.page_num = @ + 1,
                                   !.reqs = Append(@, Request(l, "repos", l.page_num + 1))],
              value |-> <<>>, error |-> ""]

\* A mutation of fetch_all_repository_data_recv: the loop gives up at its third
\* page and returns what it has.
fetch_all_repository_data_recv_PageLimit(l0, outcome, pages) ==
    LET l         == [l0 EXCEPT !.resps = Append(@, outcome)]
        page_data == PageData(pages, l.page_num)
        all       == l.all_repos \o normalize_page(page_data)
    IN  IF outcome # "ok"
        THEN [kind |-> "raise", locals |-> l, value |-> <<>>, error |-> outcome]
        ELSE IF page_data = <<>>
        THEN [kind |-> "return", locals |-> l, value |-> l.all_repos, error |-> ""]
        ELSE IF l.page_num >= 3
        THEN [kind |-> "return", locals |-> [l EXCEPT !.all_repos = all],
              value |-> all, error |-> ""]
        ELSE [kind |-> "continue",
              locals |-> [l EXCEPT !.all_repos = all,
                                   !.page_num = @ + 1,
                                   !.reqs = Append(@, Request(l, "repos", l.page_num + 1))],
              value |-> <<>>, error |-> ""]

\* One iteration of the loop of fetch_all_repository_data, from the response
\* to page_num on: an error is re-raised, an empty page ends the loop and
\* returns all_repos, any other page is appended and the next one requested.
fetch_all_repository_data_recv(l0, outcome, pages) ==
    LET l         == [l0 EXCEPT !.resps = Append(@, outcome)]
        page_data == PageData(pages, l.page_num)
    IN  IF outcome # "ok"
        THEN [kind |-> "raise", locals |-> l, value |-> <<>>, error |-> outcome]
        ELSE IF page_data = <<>>
        THEN [kind |-> "return", locals |-> l, value |-> l.all_repos, error |-> ""]
        ELSE [kind |-> "continue",
              locals |-> [l EXCEPT !.all_repos = @ \o normalize_page(page_data),
                                   !.page_num = @ + 1,
                                   !.reqs = Append(@, Request(l, "repos", l.page_num + 1))],
              value |-> <<>>, error |-> ""]

-----------------------------------------------------------------------------
(* workflow.py: the retry policy and what run waits for *)

PRE == "preflight_check"

PROF == "retrieve_user_profile_activity"

REPO == "retrieve_repositories_activity"

AGG == "compute_summary_stats_activity"

Activities == {PRE, PROF, REPO, AGG}

\* RetryPolicy(maximum_attempts=6, ...)
maximum_attempts == 6

\* A mutation of AfterFailure: one attempt more than the policy allows.
AfterFailure_OneMore(attempt, error) ==
    IF attempt < maximum_attempts + 1 THEN "scheduled" ELSE "failed"

\* What the engine does with an activity whose attempt has just failed, under
\* retry_policy: the policy names no non-retryable error type, so every error is
\* retried until maximum_attempts attempts have been made.
AfterFailure(attempt, error) ==
    IF attempt < maximum_attempts THEN "scheduled" ELSE "failed"

\* A mutation of PreflightPassed: run does not await the preflight.
PreflightPassed_NoAwait(a) == a[PRE].status # "none"

\* await execute_activity_method(preflight_check, ...) has returned
PreflightPassed(a) == a[PRE].status = "completed"

\* A mutation of GatherDone: the first fetch to complete releases the join.
GatherDone_Race(a) == a[PROF].status = "completed" \/ a[REPO].status = "completed"

\* await asyncio.gather(...) has returned: both activities have completed
GatherDone(a) == a[PROF].status = "completed" /\ a[REPO].status = "completed"

\* The activities run is waiting for at a position.
Awaited(pc) ==
    CASE pc = "preflight" -> {PRE}
      [] pc = "gather"    -> {PROF, REPO}
      [] pc = "aggregate" -> {AGG}
      [] OTHER            -> {}

\* A mutation of RunReturn: run returns its summary_stats.
RunReturn_Stats(stats) == stats

\* The value run returns: the body ends without a return statement.
RunReturn(stats) == JNull

\* The run has ended: it returned, failed or was cancelled.
Closed == wf_pc \in {"completed", "failed", "cancelled"}

USER_FILE == "github_user_profile.json"

REPO_FILE == "github_repositories.json"

STATS_FILE == "github_summary_stats.json"

\* A mutation of WriteFile: the file is opened in append mode, a second dump
\* follows the first.
WriteFile_Append(fs, name, data) ==
    IF name \in DOMAIN fs
    THEN (name :> [old |-> fs[name], new |-> data]) @@ fs
    ELSE (name :> data) @@ fs

\* open(output_file, "w"); json.dump(data, f): a full overwrite
WriteFile(fs, name, data) == (name :> data) @@ fs

Started(a, l) ==
    /\ act' = [act EXCEPT ![a] = [status |-> "running", attempt |-> @.attempt + 1,
                                  error |-> ""]]
    /\ loc' = [loc EXCEPT ![a] = l]

Raised(a, attempt, l, error) ==
    /\ act' = [act EXCEPT ![a] = [status |-> AfterFailure(attempt, error),
                                  attempt |-> attempt, error |-> error]]
    /\ loc' = [loc EXCEPT ![a] = l]

Returned(a, value) ==
    /\ act' = [act EXCEPT ![a].status = "completed"]
    /\ ret' = [ret EXCEPT ![a] = value]

-----------------------------------------------------------------------------
(* The run: inputs *)

\* How often the environment may change during a run.
MaxEnvChanges == 1

MainArgs ==
    {NoneArgs,
     Args([username |-> JStr("a")]),
     Args([username |-> JStr("a"), pat |-> JStr("t")])}

EnvChoices ==
    {EmptyDict,
     [GITHUB_USERNAME |-> JStr("b"), GITHUB_PAT |-> JStr("p")]}

MainUsers ==
    {[login |-> JStr("a"), name |-> JNull, followers |-> JInt(10),
      following |-> JInt(3), public_repos |-> JInt(7)]}

MainLayouts == {<<2, 1>>}

\* No activity has returned yet: no value, and for the repository listing no
\* record.
NoReturns == [a \in Activities |-> IF a = REPO THEN <<>> ELSE JNull]

NotRun ==
    /\ env_changes = 0
    /\ wf_pc = "start"
    /\ wf_result = [returned |-> FALSE, value |-> JNull]
    /\ user_data = EmptyDict
    /\ repo_data = <<>>
    /\ summary_stats = EmptyDict
    /\ act = [a \in Activities |-> [status |-> "none", attempt |-> 0, error |-> ""]]
    /\ ret = NoReturns
    /\ loc = [a \in Activities |-> NoLocals]
    /\ files = EmptyDict

NoUnit ==
    /\ unit_pc = "off"
    /\ unit_in = JNull
    /\ unit_out = JNull

Init ==
    /\ workflow_args \in MainArgs
    /\ environ \in EnvChoices
    /\ upstream_user \in MainUsers
    /\ upstream_pages \in {PagesOf(s) : s \in MainLayouts}
    /\ upstream_tail = <<>>
    /\ NotRun
    /\ NoUnit

-----------------------------------------------------------------------------
(* The environment *)

\* os.environ is changed by the process or a test while the run is open.
setenv ==
    /\ ~Closed
    /\ env_changes < MaxEnvChanges
    /\ \E e \in EnvChoices \ {environ} : environ' = e
    /\ env_changes' = env_changes + 1
    /\ UNCHANGED <<input_vars, wf_vars, act, ret, loc, files, unit_vars>>

-----------------------------------------------------------------------------
(* activities.py: the four activities, from one suspension to the next *)

\* A mutation of preflight_check_begin: the probe is sent without the two
\* checks of the resolved credentials.
preflight_check_begin_NoCheck ==
    /\ act[PRE].status = "scheduled"
    /\ ~Closed
    /\ LET creds == resolve_credentials(workflow_args, environ)
       IN  Started(PRE, fetch_user_profile_data_send(GitHubClient(creds)))
    /\ UNCHANGED <<input_vars, environ, env_changes, wf_vars, ret, files, unit_vars>>

\* An attempt of preflight_check up to its await of the probe: the credentials
\* are resolved now, a missing PAT or username raises ValueError.
preflight_check_begin ==
    /\ act[PRE].status = "scheduled"
    /\ ~Closed
    /\ LET creds == resolve_credentials(workflow_args, environ)
           l     == [NoLocals EXCEPT !.username = creds.username, !.pat = creds.pat]
       IN  IF ~Truthy(creds.pat) \/ ~Truthy(creds.username)
           THEN Raised(PRE, act[PRE].attempt + 1, l, "ValueError")
           ELSE Started(PRE, fetch_user_profile_data_send(GitHubClient(creds)))
    /\ UNCHANGED <<input_vars, environ, env_changes, wf_vars, ret, files, unit_vars>>

\* The probe's response: the profile is discarded and None returned, an error
\* is logged and re-raised.
preflight_check_resume ==
    /\ act[PRE].status = "running"
    /\ \E outcome \in HttpOutcomes :
         LET r == fetch_user_profile_data_recv(loc[PRE], outcome, upstream_user)
         IN  IF r.kind = "return"
             THEN Returned(PRE, JNull) /\ loc' = [loc EXCEPT ![PRE] = r.locals]
             ELSE Raised(PRE, act[PRE].attempt, r.locals, r.error) /\ UNCHANGED ret
    /\ UNCHANGED <<input_vars, environ, env_changes, wf_vars, files, unit_vars>>

\* An attempt of retrieve_user_profile_activity up to its await of the GET.
retrieve_user_profile_activity_begin ==
    /\ act[PROF].status = "scheduled"
    /\ ~Closed
    /\ LET creds == resolve_credentials(workflow_args, environ)
       IN  Started(PROF, fetch_user_profile_data_send(GitHubClient(creds)))
    /\ UNCHANGED <<input_vars, environ, env_changes, wf_vars, ret, files, unit_vars>>

\* A mutation of retrieve_user_profile_activity_resume: the list the pages are
\* collected in is shared with the profile fetch, which clears it.
retrieve_user_profile_activity_resume_SharedState ==
    /\ act[PROF].status = "running"
    /\ \E outcome \in HttpOutcomes, w \in WriteOutcomes :
         LET r == fetch_user_profile_data_recv(loc[PROF], outcome, upstream_user)
         IN  CASE r.kind = "raise" ->
                    /\ Raised(PROF, act[PROF].attempt, r.locals, r.error)
                    /\ UNCHANGED <<ret, files>>
               [] r.kind = "return" /\ w = "ok" ->
                    /\ files' = WriteFile(files, USER_FILE, r.value)
                    /\ Returned(PROF, r.value)
                    /\ loc' = [loc EXCEPT ![PROF] = r.locals, ![REPO].all_repos = <<>>]
               [] r.kind = "return" /\ w # "ok" ->
                    /\ Raised(PROF, act[PROF].attempt, r.locals, w)
                    /\ UNCHANGED <<ret, files>>
    /\ UNCHANGED <<input_vars, environ, env_changes, wf_vars, unit_vars>>

\* The response: the normalized profile is written to its artifact and returned.
retrieve_user_profile_activity_resume ==
    /\ act[PROF].status = "running"
    /\ \E outcome \in HttpOutcomes, w \in WriteOutcomes :
         LET r == fetch_user_profile_data_recv(loc[PROF], outcome, upstream_user)
         IN  CASE r.kind = "raise" ->
                    /\ Raised(PROF, act[PROF].attempt, r.locals, r.error)
                    /\ UNCHANGED <<ret, files>>
               [] r.kind = "return" /\ w = "ok" ->
                    /\ files' = WriteFile(files, USER_FILE, r.value)
                    /\ Returned(PROF, r.value)
                    /\ loc' = [loc EXCEPT ![PROF] = r.locals]
               [] r.kind = "return" /\ w # "ok" ->
                    /\ Raised(PROF, act[PROF].attempt, r.locals, w)
                    /\ UNCHANGED <<ret, files>>
    /\ UNCHANGED <<input_vars, environ, env_changes, wf_vars, unit_vars>>

\* A mutation of retrieve_repositories_activity_begin: the client is kept on
\* the activities object and used again by the next attempt.
retrieve_repositories_activity_begin_SharedClient ==
    /\ act[REPO].status = "scheduled"
    /\ ~Closed
    /\ LET creds == resolve_credentials(workflow_args, environ)
           c     == IF loc[REPO].client THEN loc[REPO] ELSE GitHubClient(creds)
       IN  Started(REPO, fetch_all_repository_data_send(c))
    /\ UNCHANGED <<input_vars, environ, env_changes, wf_vars, ret, files, unit_vars>>

\* An attempt of retrieve_repositories_activity up to its await of page 1.
retrieve_repositories_activity_begin ==
    /\ act[REPO].status = "scheduled"
    /\ ~Closed
    /\ LET creds == resolve_credentials(workflow_args, environ)
       IN  Started(REPO, fetch_all_repository_data_send(GitHubClient(creds)))
    /\ UNCHANGED <<input_vars, environ, env_changes, wf_vars, ret, files, unit_vars>>

\* The response to a page: the loop goes on to the next page, or the error is
\* raised, or the complete list is written to its artifact and returned. The
\* loop has no bound of its own; the model stops following it after PageCap
\* responses.
retrieve_repositories_activity_resume ==
    /\ act[REPO].status = "running"
    /\ loc[REPO].page_num <= PageCap
    /\ \E outcome \in HttpOutcomes, w \in WriteOutcomes :
         LET r == fetch_all_repository_data_recv(loc[REPO], outcome, upstream_pages)
         IN  CASE r.kind = "continue" ->
                    /\ loc' = [loc EXCEPT ![REPO] = r.locals]
                    /\ UNCHANGED <<act, ret, files>>
               [] r.kind = "raise" ->
                    /\ Raised(REPO, act[REPO].attempt, r.locals, r.error)
                    /\ UNCHANGED <<ret, files>>
               [] r.kind = "return" /\ w = "ok" ->
                    /\ files' = WriteFile(files, REPO_FILE, r.value)
                    /\ Returned(REPO, r.value)
                    /\ loc' = [loc EXCEPT ![REPO] = r.locals]
               [] r.kind = "return" /\ w # "ok" ->
                    /\ Raised(REPO, act[REPO].attempt, r.locals, w)
                    /\ UNCHANGED <<ret, files>>
    /\ UNCHANGED <<input_vars, environ, env_changes, wf_vars, unit_vars>>

\* A mutation of compute_summary_stats_activity: the attempt resolves the
\* credentials and probes the API, as the preflight does, before it computes.
compute_summary_stats_activity_Probe ==
    /\ act[AGG].status = "scheduled"
    /\ ~Closed
    /\ \E w \in WriteOutcomes :
         LET raw_data == [user_data |-> user_data, repo_data |-> repo_data]
             stats    == summary_stats_of(raw_data)
             creds    == resolve_credentials(workflow_args, environ)
             l        == fetch_user_profile_data_send(GitHubClient(creds))
         IN  IF w = "ok"
             THEN /\ files' = WriteFile(files, STATS_FILE, stats)
                  /\ act' = [act EXCEPT ![AGG] = [status |-> "completed",
                                                  attempt |-> @.attempt + 1,
                                                  error |-> ""]]
                  /\ ret' = [ret EXCEPT ![AGG] = stats]
                  /\ loc' = [loc EXCEPT ![AGG] = l]
             ELSE /\ Raised(AGG, act[AGG].attempt + 1, l, w)
                  /\ UNCHANGED <<ret, files>>
    /\ UNCHANGED <<input_vars, environ, env_changes, wf_vars, unit_vars>>

\* An attempt of compute_summary_stats_activity: it never suspends.
compute_summary_stats_activity ==
    /\ act[AGG].status = "scheduled"
    /\ ~Closed
    /\ \E w \in WriteOutcomes :
         LET raw_data == [user_data |-> user_data, repo_data |-> repo_data]
             stats    == summary_stats_of(raw_data)
         IN  IF w = "ok"
             THEN /\ files' = WriteFile(files, STATS_FILE, stats)
                  /\ act' = [act EXCEPT ![AGG] = [status |-> "completed",
                                                  attempt |-> @.attempt + 1,
                                                  error |-> ""]]
                  /\ ret' = [ret EXCEPT ![AGG] = stats]
                  /\ UNCHANGED loc
             ELSE /\ Raised(AGG, act[AGG].attempt + 1, NoLocals, w)
                  /\ UNCHANGED <<ret, files>>
    /\ UNCHANGED <<input_vars, environ, env_changes, wf_vars, unit_vars>>

-----------------------------------------------------------------------------
(* workflow.py: GitHubWorkflow.run *)

Schedule(A) ==
    act' = [a \in Activities |->
              IF a \in A THEN [act[a] EXCEPT !.status = "scheduled"] ELSE act[a]]

\* run up to its await of preflight_check
run_start ==
    /\ wf_pc = "start"
    /\ wf_pc' = "preflight"
    /\ Schedule({PRE})
    /\ UNCHANGED <<input_vars, environ, env_changes, wf_result, user_data, repo_data,
                   summary_stats, ret, loc, files, unit_vars>>

\* the preflight has returned: both fetches are started and gathered
run_gather ==
    /\ wf_pc = "preflight"
    /\ PreflightPassed(act)
    /\ wf_pc' = "gather"
    /\ Schedule({PROF, REPO})
    /\ UNCHANGED <<input_vars, environ, env_changes, wf_result, user_data, repo_data,
                   summary_stats, ret, loc, files, unit_vars>>

\* gather has returned user_data, repo_data: the aggregation is started
run_aggregate ==
    /\ wf_pc = "gather"
    /\ GatherDone(act)
    /\ wf_pc' = "aggregate"
    /\ user_data' = ret[PROF]
    /\ repo_data' = ret[REPO]
    /\ Schedule({AGG})
    /\ UNCHANGED <<input_vars, environ, env_changes, wf_result, summary_stats,
                   ret, loc, files, unit_vars>>

\* the aggregation has returned summary_stats: run ends
run_return ==
    /\ wf_pc = "aggregate"
    /\ act[AGG].status = "completed"
    /\ wf_pc' = "completed"
    /\ summary_stats' = ret[AGG]
    /\ wf_result' = [returned |-> TRUE, value |-> RunReturn(ret[AGG])]
    /\ UNCHANGED <<input_vars, environ, env_changes, user_data, repo_data,
                   act, ret, loc, files, unit_vars>>

\* A mutation of run_fail: the failing run removes the artifacts written so far.
run_fail_Cleanup ==
    /\ \E a \in Awaited(wf_pc) : act[a].status = "failed"
    /\ wf_pc' = "failed"
    /\ files' = EmptyDict
    /\ UNCHANGED <<input_vars, environ, env_changes, wf_result, user_data, repo_data,
                   summary_stats, act, ret, loc, unit_vars>>

\* A mutation of run_fail: the failing join cancels the fetch still in flight.
run_fail_CancelSibling ==
    /\ \E a \in Awaited(wf_pc) : act[a].status = "failed"
    /\ wf_pc' = "failed"
    /\ act' = [a \in Activities |->
                 IF a \in Awaited(wf_pc) /\ act[a].status \in {"running", "scheduled"}
                 THEN [act[a] EXCEPT !.status = "cancelled"]
                 ELSE act[a]]
    /\ UNCHANGED <<input_vars, environ, env_changes, wf_result, user_data, repo_data,
                   summary_stats, ret, loc, files, unit_vars>>

\* an awaited activity has failed for good: the error leaves run, which fails;
\* gather raises the first failure without waiting for the other fetch
run_fail ==
    /\ \E a \in Awaited(wf_pc) : act[a].status = "failed"
    /\ wf_pc' = "failed"
    /\ UNCHANGED <<input_vars, environ, env_changes, wf_result, user_data, repo_data,
                   summary_stats, act, ret, loc, files, unit_vars>>

Next ==
    \/ setenv
    \/ run_start
    \/ run_gather
    \/ run_aggregate
    \/ run_return
    \/ run_fail
    \/ preflight_check_begin
    \/ preflight_check_resume
    \/ retrieve_user_profile_activity_begin
    \/ retrieve_user_profile_activity_resume
    \/ retrieve_repositories_activity_begin
    \/ retrieve_repositories_activity_resume
    \/ compute_summary_stats_activity

Spec == Init /\ [][Next]_vars

-----------------------------------------------------------------------------
(* _resolve_credentials called on its own, over all small configurations *)

CredConfigValues == {JNull, JStr(""), JStr("a")}

CredEnvValues == {JStr(""), JStr("b")}

\* All mappings from a subset of K to V.
PartialMaps(K, V) == UNION {[D -> V] : D \in SUBSET K}

CredArgs ==
    {NoneArgs} \cup {Args(d) : d \in PartialMaps({"username", "pat"}, CredConfigValues)}

CredEnvs == PartialMaps({"GITHUB_USERNAME", "GITHUB_PAT"}, CredEnvValues)

InitCred ==
    /\ workflow_args \in CredArgs
    /\ environ \in CredEnvs
    /\ upstream_user \in MainUsers
    /\ upstream_pages = <<>>
    /\ upstream_tail = <<>>
    /\ NotRun
    /\ unit_pc = "ready"
    /\ unit_in = JNull
    /\ unit_out = JNull

\* the environment is overridden before the call
unit_setenv ==
    /\ unit_pc = "ready"
    /\ env_changes < MaxEnvChanges
    /\ \E e \in CredEnvs \ {environ} : environ' = e
    /\ env_changes' = env_changes + 1
    /\ UNCHANGED <<input_vars, wf_vars, act, ret, loc, files, unit_vars>>

call_resolve_credentials ==
    /\ unit_pc = "ready"
    /\ unit_pc' = "done"
    /\ unit_in' = [args |-> workflow_args, env |-> environ]
    /\ unit_out' = resolve_credentials(workflow_args, environ)
    /\ UNCHANGED run_vars

NextCred == unit_setenv \/ call_resolve_credentials

SpecCred == InitCred /\ [][NextCred]_vars

-----------------------------------------------------------------------------
(* _normalize_user_json called on its own, over all small partial mappings *)

\* What the API may send for a key: null, or a value of the key's type, which
\* may be the empty string or 0.
UpstreamValues(k) ==
    IF k \in UserJsonIntKeys THEN {JNull, JInt(0), JInt(7)}
    ELSE {JNull, JStr(""), JStr(k)}

UserJsons ==
    UNION {{j \in [D -> UNION {UpstreamValues(k) : k \in D}] :
              \A k \in D : j[k] \in UpstreamValues(k)} :
           D \in SubsetsUpTo(UserJsonKeys, MaxJsonKeys)}

InitNorm ==
    /\ workflow_args = NoneArgs
    /\ environ = EmptyDict
    /\ upstream_user \in UserJsons
    /\ upstream_pages = <<>>
    /\ upstream_tail = <<>>
    /\ NotRun
    /\ unit_pc = "ready"
    /\ unit_in = JNull
    /\ unit_out = JNull

call_normalize_user_json ==
    /\ unit_pc = "ready"
    /\ unit_pc' = "done"
    /\ unit_in' = upstream_user
    /\ unit_out' = normalize_user_json(upstream_user)
    /\ UNCHANGED run_vars

NextNorm == call_normalize_user_json

SpecNorm == InitNorm /\ [][NextNorm]_vars

-----------------------------------------------------------------------------
(* The aggregation called on its own, over all small profiles and collections *)

MaxRepos == 2

StatValues == {JNull, JInt(0), JInt(2), JInt(3), JInt(10)}

StatKeys == {"followers", "following", "public_gists", "public_repos"}

RepoChoices == {normalize_repo(RawRepo(1)), normalize_repo(RawRepo(2))}

InitAgg ==
    /\ workflow_args = NoneArgs
    /\ environ = EmptyDict
    /\ upstream_user = EmptyDict
    /\ upstream_pages = <<>>
    /\ upstream_tail = <<>>
    /\ NotRun
    /\ unit_pc = "ready"
    /\ unit_in \in [user_data : PartialMaps(StatKeys, StatValues),
                    repo_data : SeqsUpTo(RepoChoices, MaxRepos)]
    /\ unit_out = JNull

call_compute_summary_stats ==
    /\ unit_pc = "ready"
    /\ unit_pc' = "done"
    /\ unit_out' = summary_stats_of(unit_in)
    /\ UNCHANGED <<run_vars, unit_in>>

NextAgg == call_compute_summary_stats

SpecAgg == InitAgg /\ [][NextAgg]_vars

-----------------------------------------------------------------------------
(* retrieve_repositories_activity on its own, over all small upstreams *)

\* The state run_gather leaves when the preflight passed at its first attempt.
AfterGather ==
    LET creds == resolve_credentials(workflow_args, environ)
        pre   == fetch_user_profile_data_recv(
                     fetch_user_profile_data_send(GitHubClient(creds)),
                     "ok", upstream_user).locals
    IN  /\ env_changes = 0
        /\ wf_pc = "gather"
        /\ wf_result = [returned |-> FALSE, value |-> JNull]
        /\ user_data = EmptyDict
        /\ repo_data = <<>>
        /\ summary_stats = EmptyDict
        /\ act = [a \in Activities |->
                    CASE a = PRE -> [status |-> "completed", attempt |-> 1, error |-> ""]
                      [] a \in {PROF, REPO} ->
                                    [status |-> "scheduled", attempt |-> 0, error |-> ""]
                      [] OTHER   -> [status |-> "none", attempt |-> 0, error |-> ""]]
        /\ ret = NoReturns
        /\ loc = [a \in Activities |-> IF a = PRE THEN pre ELSE NoLocals]
        /\ files = EmptyDict

InitRepo ==
    /\ workflow_args = Args([username |-> JStr("a"), pat |-> JStr("t")])
    /\ environ = EmptyDict
    /\ upstream_user \in MainUsers
    /\ upstream_pages \in {PagesOf(s) : s \in SeqsUpTo(0..MaxPageSize, MaxPages)}
    /\ upstream_tail = <<>>
    /\ AfterGather
    /\ NoUnit

NextRepo ==
    \/ retrieve_repositories_activity_begin
    \/ retrieve_repositories_activity_resume

SpecRepo == InitRepo /\ [][NextRepo]_vars

-----------------------------------------------------------------------------
(* retrieve_user_profile_activity invoked again and again with the same input *)

\* How often the activity is invoked.
MaxInvocations == 3

ProfUsers ==
    MainUsers \cup
    {EmptyDict,
     [login |-> JStr("a"), name |-> JStr("A"), bio |-> JStr(""),
      followers |-> JInt(0), public_gists |-> JNull]}

\* unit_in counts the invocations, unit_out keeps what the first invocation
\* that returned has returned and written.
InitProf ==
    /\ workflow_args = Args([username |-> JStr("a"), pat |-> JStr("t")])
    /\ environ = EmptyDict
    /\ upstream_user \in ProfUsers
    /\ upstream_pages = <<>>
    /\ upstream_tail = <<>>
    /\ AfterGather
    /\ unit_pc = "first"
    /\ unit_in = JInt(1)
    /\ unit_out = JNull

\* The activity has returned, or failed for good, and is invoked once more
\* with the same input.
invoke_again ==
    /\ act[PROF].status \in {"completed", "failed"}
    /\ unit_in.n < MaxInvocations
    /\ unit_in' = JInt(unit_in.n + 1)
    /\ IF unit_pc = "first" /\ act[PROF].status = "completed"
       THEN /\ unit_pc' = "recorded"
            /\ unit_out' = [ret |-> ret[PROF], file |-> files[USER_FILE]]
       ELSE UNCHANGED <<unit_pc, unit_out>>
    /\ act' = [act EXCEPT ![PROF] = [status |-> "scheduled", attempt |-> 0,
                                      error |-> ""]]
    /\ UNCHANGED <<input_vars, environ, env_changes, wf_vars, ret, loc, files>>

NextProf ==
    \/ retrieve_user_profile_activity_begin
    \/ retrieve_user_profile_activity_resume
    \/ invoke_again

SpecProf == InitProf /\ [][NextProf]_vars

-----------------------------------------------------------------------------
(* retrieve_repositories_activity against listings that end and that do not *)

\* What the API serves after the listed pages: the empty page, or one more
\* record on every further page.
TailChoices == {<<>>, <<RawRepo(0)>>}

InitPages ==
    /\ workflow_args = Args([username |-> JStr("a"), pat |-> JStr("t")])
    /\ environ = EmptyDict
    /\ upstream_user \in MainUsers
    /\ upstream_pages \in {PagesOf(s) : s \in SeqsUpTo(0..MaxPageSize, MaxPages)}
    /\ upstream_tail \in TailChoices
    /\ AfterGather
    /\ NoUnit

NextPages ==
    \/ retrieve_repositories_activity_begin
    \/ retrieve_repositories_activity_resume

SpecPages == InitPages /\ [][NextPages]_vars

\* Every request is answered or fails: the client's timeout (timeout=30.0)
\* turns a response that does not come into a transport error.
SpecPagesFair ==
    SpecPages /\ WF_vars(retrieve_repositories_activity_resume)

-----------------------------------------------------------------------------
(* The parallel fetch with a cancellation of the run *)

\* The run is cancelled while it awaits asyncio.gather: CancelledError is raised
\* at the await and leaves run, and gather cancels both activity handles. The
\* activities are started without a cancellation_type, so the engine's default
\* applies: the cancellation is requested and reported to run at once, without
\* waiting for the activities. A fetch with no attempt in flight is cancelled by
\* the engine at once; an attempt in flight goes on until the request reaches it.
run_cancel ==
    /\ wf_pc = "gather"
    /\ wf_pc' = "cancelled"
    /\ act' = [a \in Activities |->
                 IF a \in {PROF, REPO} /\ act[a].status = "scheduled"
                 THEN [act[a] EXCEPT !.status = "cancelled"]
                 ELSE act[a]]
    /\ UNCHANGED <<input_vars, environ, env_changes, wf_result, user_data, repo_data,
                   summary_stats, ret, loc, files, unit_vars>>

\* The cancellation reaches an attempt in flight with the response to one of
\* its heartbeats (auto_heartbeater): CancelledError is raised at its await.
cancel_delivered ==
    /\ wf_pc = "cancelled"
    /\ \E a \in {PROF, REPO} :
         /\ act[a].status = "running"
         /\ act' = [act EXCEPT ![a] = [status |-> "cancelled", attempt |-> @.attempt,
                                       error |-> "CancelledError"]]
    /\ UNCHANGED <<input_vars, environ, env_changes, wf_vars, ret, loc, files,
                   unit_vars>>

InitCancel ==
    /\ workflow_args = Args([username |-> JStr("a"), pat |-> JStr("t")])
    /\ environ = EmptyDict
    /\ upstream_user \in MainUsers
    /\ upstream_pages \in {PagesOf(s) : s \in MainLayouts}
    /\ upstream_tail = <<>>
    /\ AfterGather
    /\ NoUnit

NextCancel ==
    \/ retrieve_user_profile_activity_begin
    \/ retrieve_user_profile_activity_resume
    \/ retrieve_repositories_activity_begin
    \/ retrieve_repositories_activity_resume
    \/ run_aggregate
    \/ run_fail
    \/ run_cancel
    \/ cancel_delivered

SpecCancel == InitCancel /\ [][NextCancel]_vars

-----------------------------------------------------------------------------
(* The claims *)

Invoked(a) == act[a].status # "none" \/ act[a].attempt > 0

\* C1: the Aggregation is invoked only after both Profile Retrieval and
\* Repository Retrieval have completed successfully; once either fetch has
\* failed for good, the Aggregation has not been and cannot be invoked, and the
\* run can only end as failed.
C1_GatherIsBarrier ==
    /\ Invoked(AGG) =>
         act[PROF].status = "completed" /\ act[REPO].status = "completed"
    /\ (act[PROF].status = "failed" \/ act[REPO].status = "failed") =>
         /\ ~Invoked(AGG)
         /\ wf_pc \in {"gather", "failed"}
         /\ wf_pc = "gather" => ENABLED run_fail /\ ~ENABLED run_aggregate

\* Repository Retrieval failed for good after Profile Retrieval had succeeded,
\* and the run failed.
C1_Witness ==
    /\ act[PROF].status = "completed"
    /\ act[REPO].status = "failed"
    /\ act[REPO].attempt = maximum_attempts
    /\ wf_pc = "failed"

\* C2: no attempt of Profile Retrieval or Repository Retrieval starts, and
\* neither is invoked, before the Preflight has completed; once the Preflight
\* has failed for good, no fetch and no Aggregation is invoked and the run can
\* only end as failed.
C2_PreflightIsGate ==
    /\ (Invoked(PROF) \/ Invoked(REPO) \/ Invoked(AGG)) => act[PRE].status = "completed"
    /\ act[PRE].status = "failed" =>
         /\ ~Invoked(PROF) /\ ~Invoked(REPO) /\ ~Invoked(AGG)
         /\ wf_pc \in {"preflight", "failed"}
         /\ wf_pc = "preflight" => ENABLED run_fail /\ ~ENABLED run_gather

\* The Preflight failed for good and the run failed without any fetch.
C2_Witness ==
    /\ act[PRE].status = "failed"
    /\ act[PRE].attempt = maximum_attempts
    /\ wf_pc = "failed"

\* C3: when the Aggregation has succeeded and the run is Completed, the value
\* run returned is the SummaryStatistics the Aggregation produced.
C3_RunReturnsSummaryStats ==
    wf_pc = "completed" =>
        /\ wf_result.returned
        /\ DOMAIN wf_result.value = DOMAIN ret[AGG]
        /\ wf_result.value = ret[AGG]


-----------------------------------------------------------------------------
(* C4, C5: the paginated listing *)

\* The number of the first empty page of an upstream.
FirstEmptyPage(pages) ==
    CHOOSE k \in 1..(Len(pages) + 1) :
        /\ PageData(pages, k) = <<>>
        /\ \A j \in 1..(k - 1) : PageData(pages, j) # <<>>

RECURSIVE RecordsBefore(_, _)
\* The number of records on the pages before page k.
RecordsBefore(pages, k) ==
    IF k <= 1 THEN 0 ELSE Len(pages[k - 1]) + RecordsBefore(pages, k - 1)

\* C4: a Repository Retrieval attempt all of whose requests succeeded, against
\* an upstream whose first empty page is page k, has issued exactly k requests,
\* for pages 1..k in that order, and returns exactly the records of the pages
\* 1..k-1 in page order (the upstream numbers its records 1, 2, ... across the
\* pages); a short page does not end the fetch.
C4_PaginationToFirstEmptyPage ==
    act[REPO].status = "completed" =>
        LET k == FirstEmptyPage(upstream_pages)
            n == RecordsBefore(upstream_pages, k)
        IN  /\ Len(loc[REPO].reqs) = k
            /\ \A i \in 1..k :
                 /\ loc[REPO].reqs[i].endpoint = "repos"
                 /\ loc[REPO].reqs[i].page = i
                 /\ loc[REPO].reqs[i].per_page = per_page
            /\ Len(ret[REPO]) = n
            /\ \A j \in 1..n :
                 /\ ret[REPO][j].name = JStr(ToString(j))
                 /\ ret[REPO][j].star_count = JInt(j)
                 /\ ret[REPO][j].url = JStr(ToString(j))

\* A fetch over a short first page and a longer second one: 3 records, 3 requests.
C4_Witness ==
    /\ act[REPO].status = "completed"
    /\ Len(upstream_pages) >= 2
    /\ Len(upstream_pages[1]) = 1
    /\ Len(upstream_pages[2]) = 2
    /\ Len(ret[REPO]) = 3
    /\ Len(loc[REPO].reqs) = 3

\* The step is a response to a page request of Repository Retrieval.
RepoResponse ==
    /\ act[REPO].status = "running"
    /\ Len(loc'[REPO].resps) = Len(loc[REPO].resps) + 1

\* C5: when a page request of Repository Retrieval fails, at any page, the
\* attempt ends with that error, returns nothing and leaves the artifacts as
\* they were; the repository artifact, when there is one, and the value
\* returned hold the records of all pages up to the first empty one.
C5_NoPartialRepositoryList ==
    /\ [](LET n == RecordsBefore(upstream_pages, FirstEmptyPage(upstream_pages))
          IN  /\ REPO_FILE \in DOMAIN files => Len(files[REPO_FILE]) = n
              /\ act[REPO].status = "completed" =>
                   /\ Len(ret[REPO]) = n
                   /\ REPO_FILE \in DOMAIN files
                   /\ files[REPO_FILE] = ret[REPO])
    /\ [][(RepoResponse /\ loc'[REPO].resps[Len(loc'[REPO].resps)] # "ok") =>
            /\ act'[REPO].status \in {"scheduled", "failed"}
            /\ act'[REPO].error = loc'[REPO].resps[Len(loc'[REPO].resps)]
            /\ files' = files
            /\ ret' = ret]_vars

\* The second page failed after the first had been fetched: nothing was
\* written.
C5_Witness ==
    /\ act[REPO].error = "HTTPStatusError"
    /\ loc[REPO].page_num = 2
    /\ Len(loc[REPO].all_repos) > 0
    /\ loc[REPO].resps = <<"ok", "HTTPStatusError">>
    /\ REPO_FILE \notin DOMAIN files


-----------------------------------------------------------------------------
(* C6, C7: the retry policy *)

\* C6: a run whose Preflight failed for good on a missing username or token
\* has made exactly one Preflight attempt.
C6_MissingCredentialsNotRetried ==
    (wf_pc = "failed" /\ act[PRE].status = "failed" /\ act[PRE].error = "ValueError")
        => act[PRE].attempt = 1

\* C7: every step is attempted at most maximum_attempts (6) times; a step that
\* has completed did so on one of its attempts 1..6 and lets run take its next
\* step; a step fails for good only when all 6 attempts have failed, and it then
\* lets run fail; once the run has failed it stays failed, no attempt of any
\* step starts and no step is newly invoked.
C7_AtMostSixAttempts ==
    /\ [](/\ \A a \in Activities :
               /\ act[a].attempt <= maximum_attempts
               /\ act[a].status = "completed" => act[a].attempt \in 1..maximum_attempts
               /\ act[a].status = "failed" => act[a].attempt = maximum_attempts
               /\ (act[a].status = "failed" /\ a \in Awaited(wf_pc)) => ENABLED run_fail
          /\ (wf_pc = "preflight" /\ act[PRE].status = "completed") => ENABLED run_gather
          /\ (wf_pc = "gather" /\ act[PROF].status = "completed"
                /\ act[REPO].status = "completed") => ENABLED run_aggregate
          /\ (wf_pc = "aggregate" /\ act[AGG].status = "completed") => ENABLED run_return)
    /\ [][wf_pc = "failed" =>
            /\ wf_pc' = "failed"
            /\ \A a \in Activities :
                 /\ act'[a].attempt = act[a].attempt
                 /\ act[a].status = "none" => act'[a].status = "none"]_vars

\* The Preflight succeeded on its sixth attempt and the Aggregation failed six
\* times: the run failed.
C7_Witness ==
    /\ wf_pc = "failed"
    /\ act[PRE].status = "completed" /\ act[PRE].attempt = maximum_attempts
    /\ act[AGG].status = "failed" /\ act[AGG].attempt = maximum_attempts

-----------------------------------------------------------------------------
(* C8: credential resolution *)

\* The value a configuration carries for a key: None when workflow_args is
\* None or lacks the key.
ConfigValue(args, k) == IF args.none \/ k \notin DOMAIN args.d THEN JNull ELSE args.d[k]

NonEmptyStr(v) == v.t = "str" /\ v.s # ""

\* C8 as stated: a value the configuration supplies (a string, empty or not)
\* is the result, otherwise the environment variable's value.
C8_SuppliedConfigValueWins ==
    unit_pc = "done" =>
        /\ unit_out.username =
             IF ConfigValue(unit_in.args, "username").t = "str"
             THEN ConfigValue(unit_in.args, "username")
             ELSE getenv(unit_in.env, "GITHUB_USERNAME")
        /\ unit_out.pat =
             IF ConfigValue(unit_in.args, "pat").t = "str"
             THEN ConfigValue(unit_in.args, "pat")
             ELSE getenv(unit_in.env, "GITHUB_PAT")

\* C8 (amended): independently for username and token, the result is the
\* configuration's value when that is a non-empty string, and otherwise (the
\* value is absent, None or the empty string) the value of the environment
\* variable as it is at the time of the call, None when that is unset.
C8_NonEmptyConfigValueWins ==
    unit_pc = "done" =>
        /\ unit_out.username =
             IF NonEmptyStr(ConfigValue(unit_in.args, "username"))
             THEN ConfigValue(unit_in.args, "username")
             ELSE IF "GITHUB_USERNAME" \in DOMAIN unit_in.env
                  THEN unit_in.env["GITHUB_USERNAME"] ELSE JNull
        /\ unit_out.pat =
             IF NonEmptyStr(ConfigValue(unit_in.args, "pat"))
             THEN ConfigValue(unit_in.args, "pat")
             ELSE IF "GITHUB_PAT" \in DOMAIN unit_in.env
                  THEN unit_in.env["GITHUB_PAT"] ELSE JNull

\* Explicit username a over GITHUB_USERNAME=b, the token taken from the
\* environment as overridden just before the call.
C8_Witness ==
    /\ unit_pc = "done"
    /\ env_changes = 1
    /\ unit_in.env = environ
    /\ ConfigValue(unit_in.args, "username") = JStr("a")
    /\ ConfigValue(unit_in.args, "pat") = JNull
    /\ getenv(unit_in.env, "GITHUB_USERNAME") = JStr("b")
    /\ getenv(unit_in.env, "GITHUB_PAT") = JStr("b")
    /\ unit_out = [username |-> JStr("a"), pat |-> JStr("b")]

-----------------------------------------------------------------------------
(* C9: aggregation *)

\* A count of the profile: 0 when the field is missing or null.
ProfileCount(profile, k) ==
    IF k \in DOMAIN profile /\ profile[k].t = "int" THEN profile[k] ELSE JInt(0)

\* C9: the summary has total_public_repos = the length of the repository
\* collection, and the followers, following and public_gists of the profile, 0
\* for a missing or null one, whatever the repository records hold and whatever
\* public_repos the profile reports.
C9_SummaryFromCollectionLength ==
    unit_pc = "done" =>
        /\ DOMAIN unit_out = {"total_public_repos", "total_followers",
                              "total_following", "total_public_gists"}
        /\ unit_out.total_public_repos = JInt(Len(unit_in.repo_data))
        /\ unit_out.total_followers = ProfileCount(unit_in.user_data, "followers")
        /\ unit_out.total_following = ProfileCount(unit_in.user_data, "following")
        /\ unit_out.total_public_gists = ProfileCount(unit_in.user_data, "public_gists")

\* followers 10, following 3, public_gists missing, a self-reported count of
\* 10 and two repositories.
C9_Witness ==
    /\ unit_pc = "done"
    /\ DOMAIN unit_in.user_data = {"followers", "following", "public_repos"}
    /\ unit_in.user_data.followers = JInt(10)
    /\ unit_in.user_data.following = JInt(3)
    /\ unit_in.user_data.public_repos = JInt(10)
    /\ Len(unit_in.repo_data) = 2
    /\ unit_out = [total_public_repos |-> JInt(2), total_followers |-> JInt(10),
                   total_following |-> JInt(3), total_public_gists |-> JInt(0)]

-----------------------------------------------------------------------------
(* C10: UserProfile normalization *)

\* The key of the upstream JSON a field of UserMetadata is read from.
SourceKey(f) == IF f = "profile_url" THEN "html_url" ELSE f

Sentinel(f) == IF f = "bio" THEN JStr("No bio provided.") ELSE JStr("N/A")

MissingOrNull(json, k) == k \notin DOMAIN json \/ json[k] = JNull

\* The output has all 18 fields, none null, the integer ones 0 when the
\* upstream omits or nulls them.
NormalizedShape ==
    /\ DOMAIN unit_out = UserFields
    /\ Cardinality(UserFields) = 18
    /\ \A f \in UserFields : unit_out[f] # JNull
    /\ \A f \in UserIntFields :
         MissingOrNull(unit_in, SourceKey(f)) => unit_out[f] = JInt(0)

\* C10 as stated: the output has all 18 fields, none null, every integer
\* field the upstream omits or nulls is 0 and every string field it omits or
\* nulls is its sentinel.
C10_EveryMissingStringIsSentinel ==
    unit_pc = "done" =>
        /\ NormalizedShape
        /\ \A f \in UserStrFields :
             MissingOrNull(unit_in, SourceKey(f)) => unit_out[f] = Sentinel(f)

\* C10 (amended): the output has all 18 fields, none missing or null; every
\* integer field the upstream omits or nulls is 0; every string field other
\* than name that the upstream omits or nulls is its sentinel ("N/A", "No bio
\* provided." for bio); name, when the upstream omits or nulls it, is the
\* upstream's login when that is a non-empty string and "N/A" otherwise.
C10_MissingStringIsSentinelOrLogin ==
    unit_pc = "done" =>
        /\ NormalizedShape
        /\ \A f \in UserStrFields \ {"name"} :
             MissingOrNull(unit_in, SourceKey(f)) => unit_out[f] = Sentinel(f)
        /\ MissingOrNull(unit_in, "name") =>
             unit_out.name = IF ~MissingOrNull(unit_in, "login")
                                /\ NonEmptyStr(unit_in["login"])
                             THEN unit_in["login"] ELSE JStr("N/A")

\* A null name beside a login: the name is the login; everything else is a
\* sentinel or 0.
C10_Witness ==
    /\ unit_pc = "done"
    /\ DOMAIN unit_in = {"name", "login"}
    /\ unit_in["name"] = JNull
    /\ unit_out.name = JStr("login")
    /\ unit_out.bio = JStr("No bio provided.")
    /\ unit_out.profile_url = JStr("N/A")
    /\ unit_out.followers = JInt(0)

-----------------------------------------------------------------------------
(* C14: the preflight *)

\* Both resolved credentials of an attempt are non-empty.
CredsPresent(l) == Truthy(l.username) /\ Truthy(l.pat)

\* The attempts of an activity so far have all ended in an error.
AttemptFailed(a) == act[a].attempt > 0 /\ act[a].status \in {"scheduled", "failed"}

\* C14: a Preflight attempt whose resolved username or token is absent fails
\* (ValueError) without having constructed a client or sent any HTTP request;
\* an attempt with both present sends exactly one profile GET, completes
\* exactly when that GET succeeds, fails with the GET's error exactly when it
\* fails, returns None and, as every Preflight step, leaves the artifacts as
\* they are.
C14_PreflightProbe ==
    /\ [](LET p == loc[PRE]
              s == act[PRE]
          IN  /\ ret[PRE] = JNull
              /\ (s.attempt > 0 /\ ~CredsPresent(p)) =>
                    /\ AttemptFailed(PRE)
                    /\ s.error = "ValueError"
                    /\ ~p.client
                    /\ p.reqs = <<>>
              /\ (s.attempt > 0 /\ CredsPresent(p)) =>
                    /\ Len(p.reqs) = 1
                    /\ p.reqs[1].endpoint = "user"
                    /\ Len(p.resps) <= 1
                    /\ (p.resps = <<>>) <=> (s.status = "running")
                    /\ p.resps # <<>> =>
                          /\ (p.resps[1] = "ok") <=> (s.status = "completed")
                          /\ (p.resps[1] # "ok") <=>
                                (AttemptFailed(PRE) /\ s.error = p.resps[1]))
    /\ [][(act'[PRE] # act[PRE] \/ loc'[PRE] # loc[PRE]) => files' = files]_vars

\* The preflight failed for missing credentials, the environment was set, and
\* the second attempt's probe succeeded.
C14_Witness ==
    /\ act[PRE].status = "completed"
    /\ act[PRE].attempt = 2
    /\ env_changes = 1
    /\ loc[PRE].resps = <<"ok">>
    /\ files = EmptyDict

-----------------------------------------------------------------------------
(* C15: credentials before any fetch *)

\* The steps that send HTTP requests.
FetchingSteps == {PRE, PROF, REPO}

\* C15: in every reachable state, a step attempt (Preflight, Profile
\* Retrieval, Repository Retrieval) that has sent an HTTP request resolved,
\* for that invocation, a non-empty username and a non-empty token, and the
\* request carries that username and the token's Authorization header; the
\* environment may change between the Preflight and the fetch steps.
C15_FetchOnlyWithCredentials ==
    \A a \in FetchingSteps :
        \A i \in 1..Len(loc[a].reqs) :
            /\ CredsPresent(loc[a])
            /\ Truthy(loc[a].reqs[i].username)
            /\ loc[a].reqs[i].auth

-----------------------------------------------------------------------------
(* C19: no recovery inside an attempt *)

\* The response that arrives in this step, of an attempt of step a.
Arrives(a, outcome) ==
    /\ Len(loc'[a].resps) = Len(loc[a].resps) + 1
    /\ loc'[a].resps[Len(loc'[a].resps)] = outcome

\* C19: within one attempt of a step the first failing client call ends the
\* attempt with that same error (the HTTP-status or transport error, as the
\* client raised it); the failing step sends no further request and writes no
\* artifact, and so does every later step of that failed attempt: a request
\* after a failure belongs to a new attempt, which the engine started.
C19_NoRecoveryInAttempt ==
    /\ [][\A a \in FetchingSteps :
            \A outcome \in HttpOutcomes \ {"ok"} :
                Arrives(a, outcome) =>
                    /\ act[a].status = "running"
                    /\ act'[a].status \in {"scheduled", "failed"}
                    /\ act'[a].attempt = act[a].attempt
                    /\ act'[a].error = outcome
                    /\ loc'[a].reqs = loc[a].reqs
                    /\ ret' = ret
                    /\ files' = files]_vars
    /\ [][\A a \in FetchingSteps :
            (AttemptFailed(a) /\ loc'[a] # loc[a]) =>
                /\ act[a].status = "scheduled"
                /\ act'[a].attempt = act[a].attempt + 1
                /\ files' = files]_vars
    /\ [](\A a \in FetchingSteps :
            \A i \in 1..Len(loc[a].resps) :
                loc[a].resps[i] # "ok" =>
                    /\ i = Len(loc[a].resps)
                    /\ Len(loc[a].reqs) = i
                    /\ AttemptFailed(a)
                    /\ act[a].error = loc[a].resps[i])

\* The third page request of a Repository Retrieval attempt failed: the attempt
\* ended with that error, three requests sent, no artifact written; the profile
\* attempt failed at its only request.
C19_Witness ==
    /\ act[REPO].error = "HTTPStatusError"
    /\ loc[REPO].resps = <<"ok", "ok", "HTTPStatusError">>
    /\ Len(loc[REPO].reqs) = 3
    /\ REPO_FILE \notin DOMAIN files
    /\ act[PROF].error = "TransportError"
    /\ loc[PROF].resps = <<"TransportError">>

-----------------------------------------------------------------------------
(* C20: the aggregation *)

\* C20: an attempt of Aggregation sends no HTTP request, constructs no client,
\* creates no session and resolves no credentials (its locals stay those of a
\* step that has none of them), and the step changes nothing but its own
\* engine record, its own result and the summary-statistics artifact: the
\* environment, the other steps' records, results and locals, run's locals and
\* the other artifacts are as before.
C20_AggregationIsLocal ==
    /\ [](loc[AGG] = NoLocals)
    /\ [][act'[AGG].attempt # act[AGG].attempt =>
            /\ loc' = loc
            /\ environ' = environ
            /\ wf_pc' = wf_pc
            /\ user_data' = user_data
            /\ repo_data' = repo_data
            /\ \A a \in Activities \ {AGG} : act'[a] = act[a] /\ ret'[a] = ret[a]
            /\ DOMAIN files' \subseteq DOMAIN files \cup {STATS_FILE}
            /\ \A f \in DOMAIN files \ {STATS_FILE} :
                  f \in DOMAIN files' /\ files'[f] = files[f]]_vars

\* The aggregation failed once at its write and completed at its second
\* attempt, the two fetched artifacts beside its own.
C20_Witness ==
    /\ act[AGG].status = "completed"
    /\ act[AGG].attempt = 2
    /\ DOMAIN files = {USER_FILE, REPO_FILE, STATS_FILE}
    /\ loc[AGG] = NoLocals

-----------------------------------------------------------------------------
(* C13: artifacts are kept *)

\* An attempt of step a ends in an error in this step.
FailsNow(a) == act'[a] # act[a] /\ act'[a].error # ""

\* C13: an artifact a step has persisted stays present with the same content
\* in every later step of the run; in particular a step in which an attempt of
\* any step fails, or in which the run fails, leaves all artifacts as they are.
C13_ArtifactsNotRolledBack ==
    /\ [][\A f \in DOMAIN files : f \in DOMAIN files' /\ files'[f] = files[f]]_vars
    /\ [][((\E a \in Activities : FailsNow(a)) \/ (wf_pc' = "failed" /\ wf_pc # "failed"))
            => files' = files]_vars

\* The profile was persisted, Repository Retrieval then failed for good and
\* the run failed: the profile artifact is there, with the profile.
C13_Witness ==
    /\ wf_pc = "failed"
    /\ act[REPO].status = "failed"
    /\ act[PROF].status = "completed"
    /\ DOMAIN files = {USER_FILE}
    /\ files[USER_FILE] = ret[PROF]

-----------------------------------------------------------------------------
(* C17: clients and sessions *)

\* The attempts that get as far as GitHubClient(...): every attempt of the two
\* fetch activities, and the preflight's once the credentials passed its checks.
ConstructsClient(a) ==
    /\ a \in FetchingSteps
    /\ act[a].attempt > 0
    /\ a = PRE => CredsPresent(loc[a])

\* C17 as stated: every step attempt constructs a client of its own.
C17_EveryAttemptOwnsClient ==
    \A a \in Activities : act[a].attempt > 0 => loc[a].client

\* C17, amended: every attempt of Profile Retrieval and of Repository
\* Retrieval, and every Preflight attempt whose credentials are present,
\* constructs its own client (an attempt of Aggregation, and a Preflight
\* attempt that fails its credential check, constructs none); the client
\* creates exactly one session, at its first call, and another call would
\* create none; the requests sent through the client are those of this one
\* attempt (one profile GET, or pages 1..page_num); a step that starts an
\* attempt starts with a client nothing was received through, and no step of
\* one activity changes the client or session of another.
C17_ClientPerAttempt ==
    /\ [](/\ \A a \in Activities :
                LET l == loc[a]
                IN  /\ l.session => l.client
                    /\ l.sessions = (IF l.session THEN 1 ELSE 0)
                    /\ l.client <=> ConstructsClient(a)
                    /\ ConstructsClient(a) =>
                          /\ l.session
                          /\ get_client(l) = l
                          /\ Len(l.resps) <= Len(l.reqs)
                          /\ IF a = REPO
                             THEN /\ Len(l.reqs) = l.page_num
                                  /\ \A i \in 1..Len(l.reqs) :
                                        /\ l.reqs[i].endpoint = "repos"
                                        /\ l.reqs[i].page = i
                             ELSE /\ Len(l.reqs) = 1
                                  /\ l.reqs[1].endpoint = "user")
    /\ [][\A a \in Activities :
            /\ (act'[a].attempt # act[a].attempt /\ loc'[a].client) =>
                    /\ Len(loc'[a].reqs) = 1
                    /\ loc'[a].resps = <<>>
            /\ loc'[a] # loc[a] => \A b \in Activities \ {a} : loc'[b] = loc[b]]_vars

\* Both fetches are in flight, each with its own client and session: the
\* second attempt of Repository Retrieval is at its page 2, the first of
\* Profile Retrieval awaits its response.
C17_Witness ==
    /\ act[REPO].status = "running"
    /\ act[REPO].attempt = 2
    /\ loc[REPO].page_num = 2
    /\ loc[REPO].sessions = 1
    /\ act[PROF].status = "running"
    /\ loc[PROF].sessions = 1
    /\ act[PRE].attempt = 1

-----------------------------------------------------------------------------
(* C18: the two concurrent fetches *)

\* The list a complete listing of the upstream comes to: the records of the
\* pages before the first empty one, normalized, in page order.
ExpectedRepos(pages) ==
    [i \in 1..RecordsBefore(pages, FirstEmptyPage(pages)) |-> normalize_repo(RawRepo(i))]

\* The artifact of a fetch activity.
FileOf(a) == IF a = PROF THEN USER_FILE ELSE REPO_FILE

\* The other fetch of the gather.
Sibling(a) == IF a = PROF THEN REPO ELSE PROF

\* C18: the two fetches share no mutable state: a step of one of them leaves
\* the other's engine record, locals, result and artifact as they are; and
\* whatever the interleaving of their steps and retries, with the
\* configuration, the environment and the upstream fixed, the pair of results
\* run passes to the aggregation and the two artifacts are the ones the
\* configuration and the upstream determine: the normalized profile and the
\* complete normalized listing.
C18_FetchesAreIndependent ==
    /\ [][\A a \in {PROF, REPO} :
            ((act'[a] # act[a] \/ loc'[a] # loc[a]) /\ wf_pc' = wf_pc) =>
                LET b == Sibling(a)
                IN  /\ act'[b] = act[b]
                    /\ loc'[b] = loc[b]
                    /\ ret'[b] = ret[b]
                    /\ (FileOf(b) \in DOMAIN files') <=> (FileOf(b) \in DOMAIN files)
                    /\ FileOf(b) \in DOMAIN files => files'[FileOf(b)] = files[FileOf(b)]]_vars
    /\ [](GatherDone(act) =>
            /\ ret[PROF] = normalize_user_json(upstream_user)
            /\ ret[REPO] = ExpectedRepos(upstream_pages)
            /\ {USER_FILE, REPO_FILE} \subseteq DOMAIN files
            /\ files[USER_FILE] = ret[PROF]
            /\ files[REPO_FILE] = ret[REPO])
    /\ [](wf_pc = "aggregate" =>
            /\ user_data = normalize_user_json(upstream_user)
            /\ repo_data = ExpectedRepos(upstream_pages))

\* Both fetches are in flight at the same time: Repository Retrieval is past
\* its first page while the second attempt of Profile Retrieval awaits its
\* response.
C18_Witness ==
    /\ wf_pc = "gather"
    /\ act[PROF].status = "running"
    /\ act[PROF].attempt = 2
    /\ act[REPO].status = "running"
    /\ loc[REPO].page_num = 2
    /\ Len(loc[REPO].all_repos) = 2

-----------------------------------------------------------------------------
(* C12: Profile Retrieval is idempotent *)

\* C12: with the same input and the same upstream profile, every invocation of
\* Profile Retrieval that returns, returns what the first one returned, the
\* normalized profile, and from the first write on the profile artifact holds
\* exactly what the first invocation wrote, during and after every later
\* invocation: the write replaces the file's content.
C12_ProfileRetrievalIdempotent ==
    /\ unit_pc = "recorded" =>
          /\ unit_out.ret = normalize_user_json(upstream_user)
          /\ unit_out.file = unit_out.ret
          /\ USER_FILE \in DOMAIN files
          /\ files[USER_FILE] = unit_out.file
          /\ act[PROF].status = "completed" => ret[PROF] = unit_out.ret
    /\ act[PROF].status = "completed" =>
          /\ ret[PROF] = normalize_user_json(upstream_user)
          /\ files = (USER_FILE :> ret[PROF])

\* The third invocation has returned, at its second attempt, after the first
\* had returned and been recorded.
C12_Witness ==
    /\ unit_pc = "recorded"
    /\ unit_in.n = 3
    /\ act[PROF].status = "completed"
    /\ act[PROF].attempt = 2
    /\ files[USER_FILE] = unit_out.file

-----------------------------------------------------------------------------
(* C16: termination of the paginated listing *)

\* The upstream serves a non-empty page for every page number.
NeverEmpty ==
    /\ upstream_tail # <<>>
    /\ \A i \in 1..Len(upstream_pages) : upstream_pages[i] # <<>>

\* The page the running attempt is waiting for.
AwaitedPage == PageData(upstream_pages, loc[REPO].page_num)

\* The running attempt of Repository Retrieval ends in this step.
ListingEnds == act[REPO].status = "running" /\ act'[REPO].status # "running"

\* C16: the paginated listing ends only at a page request that fails or is
\* answered with an empty page, and it ends at the first such request; a
\* non-empty page is always followed by the request for the next page,
\* whatever the page number. So against an upstream with an empty page (and
\* requests that are answered or fail) a running listing eventually returns or
\* raises, and against an upstream without one it never returns: as long as no
\* request fails it keeps requesting, page after page.
C16_ListingEndsAtEmptyPageOrError ==
    /\ [][ListingEnds => (Arrives(REPO, "ok") => AwaitedPage = <<>>)]_vars
    /\ [][\A outcome \in HttpOutcomes :
            (act[REPO].status = "running" /\ Arrives(REPO, outcome)) =>
                IF outcome = "ok" /\ AwaitedPage # <<>>
                THEN /\ act'[REPO] = act[REPO]
                     /\ loc'[REPO].page_num = loc[REPO].page_num + 1
                     /\ Len(loc'[REPO].reqs) = Len(loc[REPO].reqs) + 1
                     /\ loc'[REPO].reqs[Len(loc'[REPO].reqs)].page = loc[REPO].page_num + 1
                ELSE /\ ListingEnds
                     /\ loc'[REPO].reqs = loc[REPO].reqs]_vars
    /\ [](NeverEmpty =>
            /\ act[REPO].status # "completed"
            /\ (act[REPO].attempt > 0 /\ \A i \in 1..Len(loc[REPO].resps) :
                                            loc[REPO].resps[i] = "ok")
                  => act[REPO].status = "running")
    /\ (~NeverEmpty /\ act[REPO].status = "running") ~> (act[REPO].status # "running")

\* Against an upstream without an empty page the listing has been answered
\* PageCap times and waits for the next page.
C16_Witness ==
    /\ NeverEmpty
    /\ act[REPO].status = "running"
    /\ loc[REPO].page_num = PageCap + 1
    /\ Len(loc[REPO].resps) = PageCap
    /\ Len(loc[REPO].all_repos) >= PageCap

-----------------------------------------------------------------------------
(* C11: cancellation during the parallel fetch *)

\* C11: once the run has been cancelled during the parallel fetch, neither
\* fetch has an attempt running, and no step completes a fetch, changes its
\* result or writes an artifact.
C11_FetchesCancelledTogether ==
    /\ [](wf_pc = "cancelled" =>
            \A a \in {PROF, REPO} : act[a].status # "running")
    /\ [][wf_pc = "cancelled" =>
            /\ \A a \in {PROF, REPO} :
                  act'[a].status = "completed" => act[a].status = "completed"
            /\ ret' = ret
            /\ files' = files]_vars

\* What the cancellation leaves behind in the worst case: the run is
\* cancelled, and afterwards Profile Retrieval completed and wrote its artifact
\* while Repository Retrieval is still requesting pages.
C11_OrphanedFetch ==
    /\ wf_pc = "cancelled"
    /\ act[PROF].status = "completed"
    /\ USER_FILE \in DOMAIN files
    /\ act[REPO].status = "running"
    /\ loc[REPO].page_num = 3

-----------------------------------------------------------------------------
(* C21: a fetch that fails for good while the other is in flight *)

\* The attempt of Repository Retrieval in flight awaits the page that ends
\* the listing.
AtLastPage ==
    /\ act[REPO].status = "running"
    /\ loc[REPO].page_num <= PageCap
    /\ AwaitedPage = <<>>

\* C21: as soon as one of the two gathered fetches has failed for good the
\* run can fail, whatever the other fetch is doing; the step in which the run
\* fails leaves both fetches' engine records and locals, the results and the
\* artifacts as they are (the join cancels nothing); and after it an attempt
\* of the other fetch that is in flight can still take its steps: at its last
\* response Profile Retrieval, and Repository Retrieval at its last page, can
\* complete and write its artifact.
C21_FailedJoinLeavesSiblingRunning ==
    /\ []((wf_pc = "gather" /\ \E a \in {PROF, REPO} : act[a].status = "failed")
            => ENABLED run_fail)
    /\ [][(wf_pc = "gather" /\ wf_pc' = "failed") =>
            /\ act' = act
            /\ loc' = loc
            /\ ret' = ret
            /\ files' = files]_vars
    /\ []((wf_pc = "failed" /\ act[PROF].status = "running") =>
            ENABLED (/\ retrieve_user_profile_activity_resume
                     /\ act'[PROF].status = "completed"
                     /\ USER_FILE \in DOMAIN files'))
    /\ []((wf_pc = "failed" /\ AtLastPage) =>
            ENABLED (/\ retrieve_repositories_activity_resume
                     /\ act'[REPO].status = "completed"
                     /\ REPO_FILE \in DOMAIN files'))
    /\ []((wf_pc = "failed" /\ act[REPO].status = "running"
                            /\ loc[REPO].page_num <= PageCap) =>
            ENABLED retrieve_repositories_activity_resume)

\* Profile Retrieval has failed for good and the run has failed, while the
\* attempt of Repository Retrieval in flight has its two pages and awaits the
\* last response; its artifact is not written yet.
C21_Witness ==
    /\ wf_pc = "failed"
    /\ act[PROF].status = "failed"
    /\ AtLastPage
    /\ Len(loc[REPO].all_repos) = 3
    /\ REPO_FILE \notin DOMAIN files

=============================================================================
